---- MODULE Spec2Model ----
(***************************************************************************)
(* Model of glmhmm/glm.py: class GLM (compObs, neglogli, fit,              *)
(* generate_data).                                                         *)
(*                                                                         *)
(* Numbers.  Reals are fixed-point integers with Scale units per 1.0.      *)
(* Design-matrix entries and weights are drawn from small integer sets,    *)
(* so every linear score x.w is an integer s and exp(s) is ExpTenth(10*s). *)
(* Logarithms are in units of 1/10.                                        *)
(*                                                                         *)
(* Arrays.  A 2-D array is a sequence of rows, a 1-D array a sequence of   *)
(* numbers.  Where the code accepts either (the w of neglogli) the array   *)
(* is tagged: [nd |-> 1, a |-> v] or [nd |-> 2, a |-> M].                  *)
(*                                                                         *)
(* Exceptions.  A computation that can raise yields [exc, val]; exc is     *)
(* "none" or the name of the Python exception.                             *)
(***************************************************************************)
EXTENDS Integers, Sequences, FiniteSets, TLC

(* ---------------------------- bounds ---------------------------------- *)
MaxN == 2
MaxM == 2
MaxC == 3
MaxEvals == 2
XVals == {0, 1}
WVals == {0, 1}

(* ------------------------ fixed-point numbers ------------------------- *)
Scale == 1000
MinusInf == 0 - 1000000

\* one step of 1/10 in the exponent: p * e^(0.1) and p / e^(0.1), e^(0.1) = 1.1052
ExpStepUp(p) == p + ((p * 1052 + 5000) \div 10000)
ExpStepDown(p) == (p * 10000) \div 11052

RECURSIVE ExpTenth(_)
ExpTenth(k) ==
  IF k = 0 THEN Scale
  ELSE IF k > 0 THEN ExpStepUp(ExpTenth(k - 1))
  ELSE ExpStepDown(ExpTenth(k + 1))

\* np.exp of an integer score (ten steps of e^(0.1) per unit)
Exp(s) == ExpTenth(10 * s)

RECURSIVE LnUp(_, _, _)
LnUp(v, k, p) ==
  LET q == ExpStepUp(p) IN IF q <= v THEN LnUp(v, k + 1, q) ELSE k
RECURSIVE LnDown(_, _, _)
LnDown(v, k, p) ==
  IF p <= v THEN k ELSE LnDown(v, k - 1, ExpStepDown(p))

\* np.log in tenths: the largest k with e^(k/10) <= v; log(0) is -inf
Ln(v) ==
  IF v <= 0 THEN MinusInf
  ELSE IF v >= Scale THEN LnUp(v, 0, Scale)
  ELSE LnDown(v, 0, Scale)

\* np.divide on fixed-point numbers, rounded to nearest
Divide(a, b) == (a * Scale + (b \div 2)) \div b

\* np.round(v, 2): to a multiple of Scale/100, ties to even
Round2(v) ==
  LET unit == Scale \div 100
      q == v \div unit
      r == v % unit
  IN  IF 2 * r < unit THEN q * unit
      ELSE IF 2 * r > unit THEN (q + 1) * unit
      ELSE IF q % 2 = 0 THEN q * unit ELSE (q + 1) * unit

(* ------------------------------ arrays -------------------------------- *)
RECURSIVE SumSeq(_)
SumSeq(s) == IF s = <<>> THEN 0 ELSE Head(s) + SumSeq(Tail(s))

RECURSIVE Concat(_)
Concat(ss) == IF ss = <<>> THEN <<>> ELSE Head(ss) \o Concat(Tail(ss))

NRows(A) == Len(A)
NCols(A) == Len(A[1])

\* the 1-D array of k entries e(j) and the 2-D array of r x k entries e(i,j),
\* as sequences (of rows)
Array1(k, e(_)) == [j \in 1..k |-> e(j)] \o <<>>
Array2(r, k, e(_, _)) == [i \in 1..r |-> [j \in 1..k |-> e(i, j)] \o <<>>] \o <<>>

Zeros(r, k) == Array2(r, k, LAMBDA i, j : 0)

\* A.T
Transpose(A) == Array2(NCols(A), NRows(A), LAMBDA j, i : A[i][j])

\* np.sum(A, axis=1)
SumAxis1(A) == Array1(NRows(A), LAMBDA i : SumSeq(A[i]))

\* np.sum(A) over every entry
SumAll(A) == SumSeq(SumAxis1(A))

\* A[:,1:]
DropCol0(A) == Array1(NRows(A), LAMBDA i : Tail(A[i]))

\* np.ndarray.flatten (row-major)
Flatten(A) == Concat(A)

\* np.hstack of two 2-D arrays with the same number of rows
HStack(A, B) == Array1(NRows(A), LAMBDA i : A[i] \o B[i])

\* np.vstack
VStack(A, B) == A \o B

\* v[:,np.newaxis] of a 1-D array
Column(v) == Array2(Len(v), 1, LAMBDA i, j : v[i])

\* np.multiply of a fixed-point 2-D array and a 0/1 2-D array, with numpy's
\* broadcasting (a ValueError when the shapes are not compatible)
BroadcastOK(A, B) ==
  /\ (NRows(A) = NRows(B) \/ NRows(A) = 1 \/ NRows(B) = 1)
  /\ (NCols(A) = NCols(B) \/ NCols(A) = 1 \/ NCols(B) = 1)

Max(a, b) == IF a >= b THEN a ELSE b

Multiply(A, B) ==
  Array2(Max(NRows(A), NRows(B)), Max(NCols(A), NCols(B)), LAMBDA i, j :
    A[IF NRows(A) = 1 THEN 1 ELSE i][IF NCols(A) = 1 THEN 1 ELSE j]
      * B[IF NRows(B) = 1 THEN 1 ELSE i][IF NCols(B) = 1 THEN 1 ELSE j])

\* np.divide(A, v) of a 2-D array by a 1-D array: v runs along the last axis
DivideLast(A, v) == Array2(NRows(A), NCols(A), LAMBDA i, j : Divide(A[i][j], v[j]))

\* np.reshape(v, (r, k)) of a 1-D array of r*k entries
Reshape(v, r, k) == Array2(r, k, LAMBDA i, j : v[(i - 1) * k + j])

\* phi.cumsum(axis=1)
RECURSIVE CumSumRow(_, _)
CumSumRow(row, acc) ==
  IF row = <<>> THEN <<>>
  ELSE <<acc + Head(row)>> \o CumSumRow(Tail(row), acc + Head(row))
CumSum(A) == Array1(NRows(A), LAMBDA i : CumSumRow(A[i], 0))

Raise(e) == [exc |-> e, val |-> <<>>]
Return(v) == [exc |-> "none", val |-> v]

(* ------------------------------ compObs ------------------------------- *)
\* x@w for integer x and w (ValueError when the inner dimensions differ)
Scores(x, w) ==
  Array2(NRows(x), NCols(w), LAMBDA i, j :
    SumSeq(Array1(NCols(x), LAMBDA k : x[i][k] * w[k][j])))

\* np.exp(s) and np.divide(phi.T,np.sum(phi,axis=1)).T
ExpAll(s) == Array2(NRows(s), NCols(s), LAMBDA i, j : Exp(s[i][j]))
Normalized(phi) == Transpose(DivideLast(Transpose(phi), SumAxis1(phi)))

CompObs(x, w, normalize) ==
  IF NCols(x) # NRows(w) THEN Raise("ValueError")
  ELSE Return(IF normalize THEN Normalized(ExpAll(Scores(x, w))) ELSE ExpAll(Scores(x, w)))

\* the keyword parameters compObs(self,x,w,normalize=True) declares
CompObsKeywords == {"normalize"}

\* a call self.compObs(x, w, **kw): an undeclared keyword is a TypeError
CompObsCall(x, w, kw) ==
  IF ~(DOMAIN kw \subseteq CompObsKeywords) THEN Raise("TypeError")
  ELSE CompObs(x, w, IF "normalize" \in DOMAIN kw THEN kw["normalize"] ELSE TRUE)

\* the keyword the call in neglogli is written with, and the one compObs declares
KwWritten == "normailize"
KwDeclared == "normalize"

(* ------------------------------ neglogli ------------------------------ *)
Vec(v) == [nd |-> 1, a |-> v]
Mat(M) == [nd |-> 2, a |-> M]

\* try: w.shape[1] / except IndexError: w = w[:,np.newaxis]
Promote(w) == IF w.nd = 1 THEN Column(w.a) ELSE w.a

\* the assertion's condition: np.round(np.sum(np.divide(phi.T,norm)),2) == 1
SanityCheck(phi, norm) == Round2(SumAll(DivideLast(Transpose(phi), norm))) = Scale

\* lines 80-88 on the phi that line 79 obtained; val is the returned value,
\* which the code also stores in self.ll just before returning
LogLikelihood(weightedObs, norm) ==
  Array1(Len(norm), LAMBDA i : Ln(weightedObs[i]) - Ln(norm[i]))
NegLogLiOf(phi, y) ==
  IF ~BroadcastOK(phi, y) THEN Raise("ValueError")
  ELSE IF Max(NRows(phi), NRows(y)) # NRows(phi) THEN Raise("ValueError")
  ELSE IF ~SanityCheck(phi, SumAxis1(phi)) THEN Raise("AssertionError")
  ELSE Return(0 - SumSeq(LogLikelihood(SumAxis1(Multiply(phi, y)), SumAxis1(phi))))

\* what an operation f does with the result r of a call that may have raised
\* (r is evaluated once)
Only(S) == CHOOSE v \in S : TRUE
Then(r, f(_)) == Only({IF e.exc # "none" THEN e ELSE f(e.val) : e \in {r}})

\* neglogli(self,x,w,y) with the keyword kwname at the compObs call of line 79
Neglogli(kwname, x, w, y) ==
  LET body(phi) == NegLogLiOf(phi, y)
  IN  Then(CompObsCall(x, Promote(w), kwname :> FALSE), body)

(* -------------------------------- fit --------------------------------- *)
\* The fitter's cached attributes while a call runs.  An attribute that was
\* never assigned is <<>>; self.ll holds <<value>>.  written is the set of
\* attributes the running call has assigned; exc is the pending exception.
Unset == [ll |-> <<>>, w_new |-> <<>>, phi |-> <<>>, variance |-> <<>>]

\* the attributes after the objective returned or raised r
Cached(st, r) ==
  IF r.exc # "none" THEN [st EXCEPT !.exc = r.exc]
  ELSE [st EXCEPT !.ll = <<r.val>>, !.written = @ \cup {"ll"}]

\* one evaluation of opt_log = lambda w: self.neglogli(x,w,y)
Evaluate(kwname, st, x, p, y) ==
  IF st.exc # "none" THEN st ELSE Cached(st, Neglogli(kwname, x, p, y))

\* optimize.minimize(value_and_grad(opt_log), w_flat, ...): the objective is
\* evaluated at the points of pts in order, pts[1] = w_flat; an exception of
\* the objective propagates
RECURSIVE Minimize(_, _, _, _, _)
Minimize(kwname, st, x, pts, y) ==
  IF pts = <<>> THEN st
  ELSE Minimize(kwname, Evaluate(kwname, st, x, Vec(Head(pts)), y), x, Tail(pts), y)

\* a reconstruction that puts the zero column last
ReconstructZerosLast(v, mm, cc) == HStack(Reshape(v, mm, cc - 1), Zeros(mm, 1))

\* np.hstack((np.zeros((m,1)), np.reshape(OptimizeResult.x,(m,c-1))))
Reconstruct(v, mm, cc) == HStack(Zeros(mm, 1), Reshape(v, mm, cc - 1))

\* autograd's hessian(opt_log) at the m x (c-1) array P, as the second
\* differences of the objective on the unit grid, reshaped to L x L
Objective(kwname, x, v, r, k, y) ==
  LET o == Neglogli(kwname, x, Mat(Reshape(v, r, k)), y)
  IN  IF o.exc = "none" THEN o.val ELSE 0
Bump(v, a) == Array1(Len(v), LAMBDA i : IF i = a THEN v[i] + 1 ELSE v[i])
Hessian(kwname, x, P, y) ==
  LET v == Flatten(P)
      r == NRows(P)
      k == NCols(P)
      f(u) == Objective(kwname, x, u, r, k, y)
      f0 == f(v)
      f1 == Array1(Len(v), LAMBDA a : f(Bump(v, a)))
  IN  Array2(Len(v), Len(v), LAMBDA a, b : f(Bump(Bump(v, a), b)) - f1[a] - f1[b] + f0)

\* determinant by expansion along the first row
Minor(M, a, b) ==
  Array2(Len(M) - 1, Len(M) - 1, LAMBDA i, j :
    M[IF i < a THEN i ELSE i + 1][IF j < b THEN j ELSE j + 1])
RECURSIVE Det(_)
Det(M) ==
  IF Len(M) = 0 THEN 1
  ELSE SumSeq(Array1(Len(M), LAMBDA j :
         (IF j % 2 = 1 THEN 1 ELSE 0 - 1) * M[1][j] * Det(Minor(M, 1, j))))

RECURSIVE SqrtUp(_, _)
SqrtUp(v, k) == IF (k + 1) * (k + 1) > v THEN k ELSE SqrtUp(v, k + 1)
NaN == "nan"

\* np.sqrt(np.diag(np.linalg.inv(H))): LinAlgError when H is singular
StdErrors(H) ==
  IF Det(H) = 0 THEN Raise("LinAlgError")
  ELSE Return(Array1(Len(H), LAMBDA i :
         IF (Det(Minor(H, i, i)) * Scale * Scale) \div Det(H) < 0 THEN NaN
         ELSE SqrtUp((Det(Minor(H, i, i)) * Scale * Scale) \div Det(H), 0)))

\* line 114
FitWeights(st, res, mm, cc) ==
  IF st.exc # "none" THEN st
  ELSE IF Len(res) # mm * (cc - 1) THEN [st EXCEPT !.exc = "ValueError"]
  ELSE [st EXCEPT !.w_new = Reconstruct(res, mm, cc), !.written = @ \cup {"w_new"}]

\* line 117: self.phi = self.compObs(x,w)
PhiCached(st, p) ==
  IF p.exc # "none" THEN [st EXCEPT !.exc = p.exc]
  ELSE [st EXCEPT !.phi = p.val, !.written = @ \cup {"phi"}]
FitObs(st, x, w) ==
  IF st.exc # "none" THEN st ELSE PhiCached(st, CompObsCall(x, w, <<>>))

\* lines 119-123
VarianceCached(st, r) ==
  IF r.exc # "none" THEN [st EXCEPT !.exc = r.exc]
  ELSE [st EXCEPT !.variance = r.val, !.written = @ \cup {"variance"}]
HessianAt(kwname, st, x, y) ==
  IF st.exc # "none" THEN st
  ELSE VarianceCached(st, Then(Return(Transpose(Hessian(kwname, x, DropCol0(st.w_new), y))),
                               StdErrors))
FitHessian(kwname, st, x, y, compHess) ==
  IF st.exc # "none" \/ ~compHess THEN st
  ELSE HessianAt(kwname, Evaluate(kwname, st, x, Mat(DropCol0(st.w_new)), y), x, y)

\* fit(self,x,w,y,compHess) on a fitter with attributes self; pts are the
\* points at which the optimizer evaluates the objective and res the point
\* it reports (OptimizeResult.x)
Fit(kwname, self, x, w, y, compHess, pts, res) ==
  FitHessian(kwname,
    FitObs(
      FitWeights(
        Minimize(kwname,
          [ll |-> self.ll, w_new |-> self.w_new, phi |-> self.phi,
           variance |-> self.variance, written |-> {}, exc |-> "none"],
          x, pts, y),
        res, self.m, self.c),
      x, w),
    x, y, compHess)

(* --------------------------- generate_data ---------------------------- *)
\* a search that yields no index when no entry is True
ArgMaxOrNone(b) ==
  IF \E j \in 1..Len(b) : b[j]
  THEN CHOOSE j \in 1..Len(b) : b[j] /\ \A i \in 1..(j - 1) : ~b[i]
  ELSE 0

\* np.argmax of a boolean row: the first True, or the first index when
\* there is none
ArgMax(b) ==
  IF \E j \in 1..Len(b) : b[j]
  THEN CHOOSE j \in 1..Len(b) : b[j] /\ \A i \in 1..(j - 1) : ~b[i]
  ELSE 1

\* y = np.zeros((n,c)); y[np.arange(n),obs] = 1
OneHot(obs, cc) == Array2(Len(obs), cc, LAMBDA i, j : IF j = obs[i] THEN 1 ELSE 0)

\* lines 165-171: the observations drawn from the probabilities p
Observations(p, undist, cc) ==
  OneHot(Array1(NRows(p), LAMBDA i :
           ArgMax(Array1(NCols(p), LAMBDA j : undist[i] < CumSum(p)[i][j]))), cc)

\* lines 157-159: the bias column of x and the bias row of w
BiasX(x) == HStack(Array2(NRows(x), 1, LAMBDA i, j : 1), x)
BiasW(w, brow) == VStack(Array2(1, NCols(w), LAMBDA i, j : 1 * (<<0>> \o brow)[j]), w)

Sampled(x, w, undist, cc) ==
  LET draw(p) == Return([x |-> x, w |-> w, y |-> Observations(p, undist, cc)])
  IN  Then(CompObsCall(x, w, <<>>), draw)

\* generate_data(bias) on a fitter of dimensions nn, mm, cc; the random draws are
\* wfree (mm x (cc-1) weights), xdraw (nn x mm integers), brow (the cc-1 bias
\* weights) and undist (one uniform draw per row, fixed-point in [0,1))
GenerateData(nn, mm, cc, bias, wfree, xdraw, brow, undist) ==
  IF ~bias THEN Sampled(xdraw, HStack(Zeros(mm, 1), wfree), undist, cc)
  ELSE IF NCols(xdraw) < 2 THEN Raise("IndexError")
  ELSE Sampled(BiasX(xdraw), BiasW(HStack(Zeros(mm, 1), wfree), brow), undist, cc)

(* ------------------------------- inputs ------------------------------- *)
\* design matrices whose rows are constant, weight matrices whose rows are
\* equal, and every one-hot observation matrix
XMats(r, k) == {Array2(r, k, LAMBDA i, j : v[i]) : v \in [1..r -> XVals]}
WMats(r, k) == {Array2(r, k, LAMBDA i, j : v[j]) : v \in [1..k -> WVals]}
YMats(r, k) == {OneHot(o, k) : o \in [1..r -> 1..k]}

\* uniform draws of np.random.rand, fixed-point in [0,1)
DrawVals == {0, 500, 999}

\* the points an optimizer started at x0 may evaluate, and its runs: x0
\* first, then fewer than MaxEvals further points
OptPoints(x0) == {x0} \cup {Array1(Len(x0), LAMBDA i : a) : a \in WVals}
OptRuns(x0) ==
  UNION {{<<x0>> \o t : t \in [1..(l - 1) -> OptPoints(x0)]} : l \in 1..MaxEvals}
Range(f) == {f[i] : i \in DOMAIN f}

(* ------------------------------- state -------------------------------- *)
VARIABLES n, m, c, ll, w_new, phi, variance, written, call
vars == <<n, m, c, ll, w_new, phi, variance, written, call>>

\* the record of the last call: its arguments, the exception it raised
\* ("none" when it returned) and the value it returned
Call(op, x, w, y, flag, u, exc, ret) ==
  [op |-> op, x |-> x, w |-> w, y |-> y, flag |-> flag, u |-> u, exc |-> exc, ret |-> ret]

\* __init__(self,n,m,c)
Init ==
  /\ n \in 1..MaxN
  /\ m \in 1..MaxM
  /\ c \in 2..MaxC
  /\ ll = Unset.ll
  /\ w_new = Unset.w_new
  /\ phi = Unset.phi
  /\ variance = Unset.variance
  /\ written = {}
  /\ call = Call("__init__", <<>>, <<>>, <<>>, FALSE, <<>>, "none", <<>>)

\* the datasets of the fitter's dimensions a caller may pass once it has
\* taken the result of the previous call
Idle == call.op \in {"__init__", "idle"}
Datasets ==
  {[x |-> x, w |-> w, y |-> y] : x \in XMats(n, m), w \in WMats(m, c), y \in YMats(n, c)}

\* np.random.uniform(wdist[0], high=wdist[1], size=(1,c-1)), drawn only under bias
BiasDraws(bias) == IF bias THEN [1..(c - 1) -> WVals] ELSE {<<>>}

\* the triple generate_data has just returned
Generated == call.op = "generate_data" /\ call.exc = "none"

compObs(x, w, normalize) ==
  LET r == CompObsCall(x, w, "normalize" :> normalize)
  IN  /\ call' = Call("compObs", x, w, <<>>, normalize, <<>>, r.exc, r.val)
      /\ written' = {}
      /\ UNCHANGED <<n, m, c, ll, w_new, phi, variance>>

neglogli(kwname, x, w, y) ==
  LET r == Neglogli(kwname, x, w, y)
  IN  /\ ll' = IF r.exc = "none" THEN <<r.val>> ELSE ll
      /\ written' = IF r.exc = "none" THEN {"ll"} ELSE {}
      /\ call' = Call("neglogli", x, w, y, FALSE, <<>>, r.exc, r.val)
      /\ UNCHANGED <<n, m, c, w_new, phi, variance>>

fit(kwname, x, w, y, compHess, pts, res) ==
  LET st == Fit(kwname, [m |-> m, c |-> c, ll |-> ll, w_new |-> w_new, phi |-> phi,
                         variance |-> variance], x, w, y, compHess, pts, res)
  IN  /\ ll' = st.ll
      /\ w_new' = st.w_new
      /\ phi' = st.phi
      /\ variance' = st.variance
      /\ written' = st.written
      /\ call' = Call("fit", x, w, y, compHess, <<>>, st.exc,
                      IF st.exc = "none" THEN [w_new |-> st.w_new, phi |-> st.phi] ELSE <<>>)
      /\ UNCHANGED <<n, m, c>>

generate_data(bias, wfree, xdraw, brow, undist) ==
  LET r == GenerateData(n, m, c, bias, wfree, xdraw, brow, undist)
  IN  /\ call' = Call("generate_data", <<>>, <<>>, <<>>, bias, undist, r.exc, r.val)
      /\ written' = {}
      /\ UNCHANGED <<n, m, c, ll, w_new, phi, variance>>

\* the caller takes the result of the last call
discard ==
  /\ ~Idle
  /\ call' = Call("idle", <<>>, <<>>, <<>>, FALSE, <<>>, "none", <<>>)
  /\ written' = {}
  /\ UNCHANGED <<n, m, c, ll, w_new, phi, variance>>

neglogliOn(kwname, d) ==
  \E flat \in BOOLEAN :
    neglogli(kwname, d.x, IF flat THEN Vec(Flatten(DropCol0(d.w))) ELSE Mat(d.w), d.y)

\* the optimizer's runs on d: an exception of the objective at w_flat ends
\* the run there
RunsOn(kwname, d) ==
  IF Neglogli(kwname, d.x, Vec(Flatten(DropCol0(d.w))), d.y).exc # "none"
  THEN {<<Flatten(DropCol0(d.w))>>}
  ELSE OptRuns(Flatten(DropCol0(d.w)))

fitOn(kwname, d) ==
  \E compHess \in BOOLEAN :
    \E pts \in RunsOn(kwname, d) : \E res \in Range(pts) :
      fit(kwname, d.x, d.w, d.y, compHess, pts, res)

\* The program as written: the calls a caller can make, on data of its own
\* or on the triple generate_data returned.
Next ==
  \/ Idle /\ \E x \in XMats(n, m), w \in WMats(m, c), normalize \in BOOLEAN :
               compObs(x, w, normalize)
  \/ Idle /\ \E d \in Datasets : neglogliOn(KwWritten, d)
  \/ Idle /\ \E d \in Datasets : fitOn(KwWritten, d)
  \/ Idle /\ \E bias \in BOOLEAN, wfree \in WMats(m, c - 1), xdraw \in XMats(n, m),
                undist \in [1..n -> DrawVals] :
               \E brow \in BiasDraws(bias) : generate_data(bias, wfree, xdraw, brow, undist)
  \/ Generated /\ neglogliOn(KwWritten, call.ret)
  \/ Generated /\ fitOn(KwWritten, call.ret)
  \/ discard
Spec == Init /\ [][Next]_vars

\* The statements of neglogli and fit after line 79: the same two calls with
\* the call of line 79 naming the keyword compObs declares, so that it binds.
NextDeclared ==
  \/ Idle /\ \E d \in Datasets : neglogliOn(KwDeclared, d)
  \/ Idle /\ \E d \in Datasets : fitOn(KwDeclared, d)
  \/ discard
SpecDeclared == Init /\ [][NextDeclared]_vars

(* ------------------------------- claims ------------------------------- *)
NeglogliCalled == call.op = "neglogli"
FitCalled == call.op = "fit"
FitReturned == call.op = "fit" /\ call.exc = "none"
GenerateCalled == call.op = "generate_data"

\* x is n x m, w is m x c and y is a one-hot n x c array
OneHotRows(y, r, k) ==
  /\ NRows(y) = r
  /\ \A i \in 1..r :
       /\ Len(y[i]) = k
       /\ \E j \in 1..k : y[i][j] = 1 /\ \A l \in (1..k) \ {j} : y[i][l] = 0
ValidData(x, w, y) ==
  /\ NRows(x) = n /\ NCols(x) = m
  /\ NRows(w) = m /\ NCols(w) = c
  /\ OneHotRows(y, n, c)

\* C1: for valid x, w (m x c) and one-hot y, the compObs call neglogli makes
\* binds its arguments, returns exp(x.w) and raises nothing, so that neglogli
\* does not end in a TypeError.
C1_CompObsCallBinds ==
  (NeglogliCalled /\ call.w.nd = 2 /\ ValidData(call.x, call.w.a, call.y)) =>
    /\ CompObsCall(call.x, call.w.a, KwWritten :> FALSE) = Return(ExpAll(Scores(call.x, call.w.a)))
    /\ call.exc # "TypeError"

\* C2: for every n >= 1 and valid x, w, y whose rows of phi/norm each sum to
\* 1, the assertion of neglogli passes and neglogli returns a scalar.
RowsSumToOne(p) == \A i \in 1..NRows(p) : Round2(SumSeq(p[i])) = Scale
C2_AssertionPassesOnValidData ==
  (/\ NeglogliCalled /\ call.w.nd = 2 /\ ValidData(call.x, call.w.a, call.y)
   /\ RowsSumToOne(Normalized(ExpAll(Scores(call.x, call.w.a))))) =>
    /\ call.exc # "AssertionError"
    /\ call.exc = "none" /\ ll = <<call.ret>>

\* C3: after a fit call that returns, the returned and cached w_new is m x c
\* and its column 0 is zero in every row, whatever the initial w and the
\* point the optimizer reports.
C3_Column0Zero ==
  FitReturned =>
    /\ call.ret.w_new = w_new
    /\ NRows(w_new) = m
    /\ \A i \in 1..m : Len(w_new[i]) = c /\ w_new[i][1] = 0

\* a fit call returned whose initial w has a non-zero column 0 and whose
\* optimizer reported non-zero weights other than the starting ones
C3_Witness ==
  /\ FitReturned
  /\ \E i \in 1..m : call.w[i][1] # 0
  /\ \E i \in 1..m : \E j \in 2..c : w_new[i][j] # 0
  /\ DropCol0(w_new) # DropCol0(call.w)

\* C4: after fit returns (w_new, phi), phi is the normalized compObs result
\* at the optimized weights w_new.
C4_PhiAtOptimizedWeights ==
  FitReturned =>
    /\ call.ret.phi = phi
    /\ phi = CompObs(call.x, w_new, TRUE).val

\* C5: the triple generate_data returns, for bias=True and bias=False, has
\* shapes consistent with the fitter: x.w and the product with y are defined,
\* and the flattened w[:,1:] reshapes to (self.m, self.c-1) in fit.
C5_GeneratedFitsFitter ==
  (GenerateCalled /\ call.exc = "none") =>
    /\ NCols(call.ret.x) = NRows(call.ret.w)
    /\ NRows(call.ret.y) = NRows(call.ret.x) /\ NCols(call.ret.y) = NCols(call.ret.w)
    /\ Len(Flatten(DropCol0(call.ret.w))) = m * (c - 1)

\* C6: every fit call overwrites all of the cached fields (weights,
\* probabilities, likelihood, variance), so that none holds the value of an
\* earlier call.
CachedFields == {"w_new", "phi", "ll", "variance"}
C6_FitOverwritesAllFields == FitReturned => written = CachedFields

\* C7: after fit returns, the cached self.ll is the negative log-likelihood
\* at the weights w_new that fit returns.
C7_LikelihoodAtOptimum ==
  FitReturned => ll = <<Neglogli(KwDeclared, call.x, Mat(w_new), call.y).val>>

\* C8: every row of the y that generate_data returns has exactly one entry
\* equal to 1 and all others 0, for every draw.
C8_OneHot == (GenerateCalled /\ call.exc = "none") => OneHotRows(call.ret.y, n, c)

\* generate_data returned after a draw that no cumulative probability of its
\* row exceeds, and after a draw that one exceeds
C8_Witness ==
  /\ GenerateCalled /\ call.exc = "none"
  /\ \E i \in 1..n : \A j \in 1..c :
       ~(call.u[i] < CumSum(CompObs(call.ret.x, call.ret.w, TRUE).val)[i][j])

\* C9: the objective of fit, neglogli on the flattened free columns of w, is
\* well-defined for every m >= 1 and c >= 2 (x.w and the product with y raise
\* no shape error) and equals the negative log-likelihood of the full matrix
\* [0 | reshape(v, m, c-1)].
C9_ObjectiveIsFullLikelihood ==
  (FitCalled /\ ValidData(call.x, call.w, call.y)) =>
    /\ Neglogli(KwDeclared, call.x, Vec(Flatten(DropCol0(call.w))), call.y).exc # "ValueError"
    /\ Neglogli(KwDeclared, call.x, Vec(Flatten(DropCol0(call.w))), call.y).val
         = Neglogli(KwDeclared, call.x,
                    Mat(Reconstruct(Flatten(DropCol0(call.w)), m, c)), call.y).val

\* C10: generate_data with bias=True succeeds for every m >= 1: x is
\* n x (m+1) with a first column of ones and w is (m+1) x c with w[0][0] = 0.
C10_BiasSucceeds ==
  (GenerateCalled /\ call.flag) =>
    /\ call.exc = "none"
    /\ NRows(call.ret.x) = n /\ NCols(call.ret.x) = m + 1
    /\ \A i \in 1..n : call.ret.x[i][1] = 1
    /\ NRows(call.ret.w) = m + 1 /\ NCols(call.ret.w) = c
    /\ call.ret.w[1][1] = 0

====
